---- MODULE Spec2Model ----
(***************************************************************************)
(* Token lifecycle of the Spotify broadcast backend (src/main.py):         *)
(* save_token, refresh_access_token, get_valid_token and the /callback     *)
(* code exchange, run by several workers against one Redis store.          *)
(*                                                                         *)
(* Every Redis command and every upstream exchange is one atomic step.     *)
(* Time is counted in seconds.  It passes only while every worker is at a  *)
(* blocking point (idle, polling for the lock, or waiting for the upstream *)
(* answer to requests.post, which has no timeout); store round trips and   *)
(* local computation take no time.  Time advances from one deadline (a key *)
(* expiring, a poller giving up) to the next.                              *)
(***************************************************************************)
EXTENDS Integers, FiniteSets, Sequences, TLC

\* ---------------------------------------------------------------- bounds
NumWorkers == 3
BaseWorkers == 2
ShortExpiresIn == 5
MaxWindowReqs == 2
MaxLogins == 2

\* ------------------------------------------------------ program constants
\* r.lock(..., timeout=30, blocking_timeout=5)
HoldTimeout == 30
\* blocking_timeout given the value of timeout
WaitTimeoutAsHold == HoldTimeout
WaitTimeout == 5
\* token_info.get("expires_in", 3600)
DefaultExpiresIn == 3600
\* response.status_code != 200: 200, and one status that is not
StatusOK == 200
StatusRejected == 400
\* raise HTTPException(status_code=401, detail="Spotify token not found")
StatusUnauthorized == 401
\* the framework's answer to an exception no handler catches
StatusServerError == 500
\* no status yet: the handler goes on to sp.current_playback()
StatusProceeds == 0

Workers == 1..NumWorkers

\* Python None (a missing dict key, no worker); a missing Redis key; the calls
\* left to a worker that serves requests for as long as the process runs
None == 0
Absent == <<>>
Unlimited == -1

\* ------------------------------------------------------------ encryption
\* fernet.encrypt(x.encode()).decode() and its inverse
Encrypt(plain) == <<"fernet", plain>>
Decrypt(cipher) == cipher[2]

\* a value written to Redis as it is (redis_set_up.py), and the test fernet.decrypt
\* makes before it decrypts: anything else raises InvalidToken
Raw(plain) == <<"plain", plain>>
IsCipher(value) == value[1] = "fernet"

\* the token a stored value was made from
Payload(value) == value[2]

\* what Redis answers to TTL for a key written without ex=
Persist == -1

VARIABLES
    accessKey,      \* value of "spotify_access_token" (ciphertext) or Absent
    accessTTL,      \* seconds the access key still lives (0 when absent)
    refreshKey,     \* value of "spotify_refresh_token" (ciphertext) or Absent
    lockOwner,      \* worker whose token is the value of "spotify_refresh_lock", or None
    lockTTL,        \* seconds the lock key still lives (0 when absent)
    pc,             \* where each worker is inside get_valid_token
    waited,         \* seconds a worker has been polling for the lock
    refresh_token,  \* local refresh_token of refresh_access_token
    token_info,     \* local token_info (the upstream answer) of each worker
    pending,        \* what the body of the with-block returned or raised
    outcome,        \* the call that ended in the step leading here, if one did: its
                    \* worker, what it returned or raised, and what the body of its
                    \* with-block had returned or raised
    issuedAbsent,   \* the worker's call was issued while the access key was absent
    callsLeft,      \* calls the worker will still make (Unlimited: any number)
    cb,             \* the /callback handler: its position and its token_info
    setup,          \* the redis_set_up.py script: its position and its token_info
    logins,         \* code exchanges made so far
    windowReqs,     \* upstream refresh requests issued in this expiry window (saturates)
    windowFailed,   \* some request of this window was answered without a token
    windowReturned, \* tokens returned in this window by calls issued while absent
    pairing         \* whether the answer the stored access token came from also
                    \* carried a refresh token ("none" if not, or if no access
                    \* token is stored) and whether that refresh token is the
                    \* stored one ("same") or not ("mixed")

vars == <<accessKey, accessTTL, refreshKey, lockOwner, lockTTL, pc, waited,
          refresh_token, token_info, pending, outcome, issuedAbsent, callsLeft,
          cb, setup, logins, windowReqs, windowFailed, windowReturned, pairing>>

storeVars == <<accessKey, accessTTL, refreshKey>>
lockVars == <<lockOwner, lockTTL>>
windowVars == <<windowReqs, windowFailed, windowReturned>>

\* ------------------------------------------------------------ small helpers
Min(S) == CHOOSE x \in S : \A y \in S : x <= y

NoTokenInfo == [status |-> None, access_token |-> None,
                refresh_token |-> None, expires_in |-> None]

NoResult == [kind |-> "none", value |-> None, via |-> "none"]
Returned(tok, how) == [kind |-> "ok", value |-> tok, via |-> how]
Raised(err) == [kind |-> err, value |-> None, via |-> "none"]
Ended(p, res, body) == [worker |-> p, kind |-> res.kind, value |-> res.value,
                        via |-> res.via, body |-> body.kind]
NoOutcome == Ended(None, NoResult, NoResult)

ExpiresInChoices == {None, ShortExpiresIn}

\* Access tokens some part of the system still holds
UsedAccess ==
    (IF accessKey = Absent THEN {} ELSE {Payload(accessKey)})
    \cup {token_info[p].access_token : p \in Workers}
    \cup {pending[p].value : p \in Workers}
    \cup {outcome.value}
    \cup {cb.token_info.access_token}
    \cup {setup.token_info.access_token}
    \cup windowReturned

\* Refresh tokens some part of the system still holds
UsedRefresh ==
    (IF refreshKey = Absent THEN {} ELSE {Payload(refreshKey)})
    \cup {token_info[p].refresh_token : p \in Workers}
    \cup {refresh_token[p] : p \in Workers}
    \cup {cb.token_info.refresh_token}
    \cup {setup.token_info.refresh_token}

\* The provider never issues the same token twice: the least unused name
Fresh(used) == Min({n \in 1..(Cardinality(used) + 1) : n \notin used})

\* ------------------------------------------------------------------ Init
Init ==
    /\ accessKey = Absent
    /\ accessTTL = 0
    /\ refreshKey = Absent
    /\ lockOwner = None
    /\ lockTTL = 0
    /\ pc = [p \in Workers |-> "idle"]
    /\ waited = [p \in Workers |-> 0]
    /\ refresh_token = [p \in Workers |-> None]
    /\ token_info = [p \in Workers |-> NoTokenInfo]
    /\ pending = [p \in Workers |-> NoResult]
    /\ outcome = NoOutcome
    /\ issuedAbsent = [p \in Workers |-> FALSE]
    /\ callsLeft = [p \in Workers |-> IF p <= BaseWorkers THEN Unlimited ELSE 0]
    /\ cb = [pc |-> "idle", token_info |-> NoTokenInfo]
    /\ setup = [pc |-> "idle", token_info |-> NoTokenInfo]
    /\ logins = 0
    /\ windowReqs = 0
    /\ windowFailed = FALSE
    /\ windowReturned = {}
    /\ pairing = "none"

\* ------------------------------------------------- the code's decisions
\* the key exists in Redis
Present(value) == value # Absent

\* the check of the cached token left out
AccessCachedNever(key) == FALSE

\* get_valid_token: `if encrypted_access:`
AccessCached(key) == key # Absent

\* the check of the refresh token left out
RefreshMissingNever(key) == FALSE

\* refresh_access_token: `if not encrypted_refresh:`
RefreshMissing(key) == key = Absent

\* the second read left out
RecheckHitNever(key) == FALSE

\* refresh_access_token, inside the lock: `if encrypted_access:`
RecheckHit(key) == key # Absent

\* expires_in = token_info.get("expires_in", 3600)
ExpiresIn(ti) == IF ti.expires_in = None THEN DefaultExpiresIn ELSE ti.expires_in

\* the first write made only when the key is absent (SET ... NX)
SaveAccessIfAbsent(ti, key, ttl) ==
    IF ti.access_token # None /\ key = Absent
    THEN <<Encrypt(ti.access_token), ExpiresIn(ti)>>
    ELSE <<key, ttl>>

\* save_token, its first write: <<access key, its TTL>> afterwards
SaveAccess(ti, key, ttl) ==
    IF ti.access_token # None
    THEN <<Encrypt(ti.access_token), ExpiresIn(ti)>>
    ELSE <<key, ttl>>

\* the second write without its `if refresh_token:`
SaveRefreshAlways(ti, key) == Encrypt(ti.refresh_token)

\* the pairing after save_token's first write: a new access token, whose
\* refresh token (if it came with one) is not stored yet
PairAfterAccess(ti, was) ==
    IF ti.access_token = None THEN was
    ELSE IF ti.refresh_token = None THEN "none"
    ELSE "mixed"

\* the pairing after save_token's second write: the stored refresh token is
\* the writer's, and so is the stored access token or not
PairAfterRefresh(ti, key, was) ==
    IF ti.refresh_token = None \/ was = "none" THEN was
    ELSE IF Present(key) /\ Payload(key) = ti.access_token THEN "same"
    ELSE "mixed"

\* save_token, its second write: the refresh key afterwards
SaveRefresh(ti, key) ==
    IF ti.refresh_token # None THEN Encrypt(ti.refresh_token) ELSE key

\* Lock.acquire gives up once blocking_timeout seconds have gone by
WaitExpired(w) == w >= WaitTimeout

\* Lock.release: the Lua script deletes the key only if it holds the caller's token
Owns(p) == lockOwner = p

\* The call of worker p ends with res
Finish(p, res) ==
    /\ pc' = [pc EXCEPT ![p] = "idle"]
    /\ outcome' = Ended(p, res, pending[p])
    /\ pending' = [pending EXCEPT ![p] = NoResult]
    /\ waited' = [waited EXCEPT ![p] = 0]
    /\ refresh_token' = [refresh_token EXCEPT ![p] = None]
    /\ token_info' = [token_info EXCEPT ![p] = NoTokenInfo]
    /\ issuedAbsent' = [issuedAbsent EXCEPT ![p] = FALSE]
    /\ windowReturned' = IF res.kind = "ok" /\ issuedAbsent[p]
                         THEN windowReturned \cup {res.value}
                         ELSE windowReturned

\* The statements of one get_valid_token() call in the order the code runs
\* them; no loop leads back
Rank(at) ==
    CASE at = "gvt" -> 1
      [] at = "rat" -> 2
      [] at = "acquire" -> 3
      [] at = "recheck" -> 4
      [] at = "post" -> 5
      [] at = "upstream" -> 6
      [] at = "save_access" -> 7
      [] at = "save_refresh" -> 8
      [] at = "release" -> 9
      [] at = "idle" -> 10

\* ------------------------------------- get_spotify_client and the handlers
\* get_spotify_client(): `if not token: return None`, else a client
ClientFor(res) ==
    IF res.kind # "ok" THEN res.kind
    ELSE IF res.value = None THEN "no client"
    ELSE "client"

\* currently_playing() and the other handlers: an exception raised by
\* get_spotify_client() is caught nowhere and the framework answers 500;
\* `if not sp: raise HTTPException(status_code=401)`; else the handler goes on
\* to call the Spotify API
HandlerStatus(res) ==
    CASE ClientFor(res) = "client" -> StatusProceeds
      [] ClientFor(res) = "no client" -> StatusUnauthorized
      [] OTHER -> StatusServerError

\* ------------------------------------------------------ get_valid_token
\* a request handler calls get_valid_token()
Call(p) ==
    /\ pc[p] = "idle"
    /\ callsLeft[p] # 0
    /\ callsLeft' = [callsLeft EXCEPT ![p] = IF @ = Unlimited THEN @ ELSE @ - 1]
    /\ outcome' = NoOutcome
    /\ pc' = [pc EXCEPT ![p] = "gvt"]
    /\ issuedAbsent' = [issuedAbsent EXCEPT ![p] = ~Present(accessKey)]
    /\ UNCHANGED <<storeVars, pairing, lockVars, waited, refresh_token, token_info, pending,
                   cb, setup, logins, windowVars>>

\* r.get("spotify_access_token"); return it if present, else refresh
GvtRead(p) ==
    /\ pc[p] = "gvt"
    /\ IF AccessCached(accessKey)
       THEN /\ Finish(p, IF IsCipher(accessKey)
                         THEN Returned(Decrypt(accessKey), "fast")
                         ELSE Raised("InvalidToken"))
       ELSE /\ pc' = [pc EXCEPT ![p] = "rat"]
            /\ outcome' = NoOutcome
            /\ UNCHANGED <<waited, refresh_token, token_info, pending,
                           issuedAbsent, windowReturned>>
    /\ UNCHANGED <<storeVars, pairing, lockVars, callsLeft, cb, setup, logins, windowReqs, windowFailed>>

\* ------------------------------------------------- refresh_access_token
\* r.get("spotify_refresh_token"); raise if absent, else decrypt it
RatRead(p) ==
    /\ pc[p] = "rat"
    /\ IF RefreshMissing(refreshKey)
       THEN /\ Finish(p, Raised("NoCredentials"))
       ELSE IF refreshKey = Absent
            THEN \* encrypted_refresh.encode() on None
                 /\ Finish(p, Raised("AttributeError"))
            ELSE IF ~IsCipher(refreshKey)
            THEN /\ Finish(p, Raised("InvalidToken"))
            ELSE /\ pc' = [pc EXCEPT ![p] = "acquire"]
                 /\ outcome' = NoOutcome
                 /\ refresh_token' = [refresh_token EXCEPT ![p] = Decrypt(refreshKey)]
                 /\ UNCHANGED <<waited, token_info, pending, issuedAbsent,
                                windowReturned>>
    /\ UNCHANGED <<storeVars, pairing, lockVars, callsLeft, cb, setup, logins, windowReqs, windowFailed>>

\* with r.lock(..., timeout=30, blocking_timeout=5): SET NX PX succeeds
Acquire(p) ==
    /\ pc[p] = "acquire"
    /\ outcome' = NoOutcome
    /\ lockOwner = None
    /\ lockOwner' = p
    /\ lockTTL' = HoldTimeout
    /\ pc' = [pc EXCEPT ![p] = "recheck"]
    /\ waited' = [waited EXCEPT ![p] = 0]
    /\ UNCHANGED <<storeVars, pairing, refresh_token, token_info, pending,
                   issuedAbsent, callsLeft, cb, setup, logins, windowVars>>

\* the lock stayed taken for blocking_timeout seconds: __enter__ raises LockError
AcquireTimeout(p) ==
    /\ pc[p] = "acquire"
    /\ lockOwner # None
    /\ WaitExpired(waited[p])
    /\ Finish(p, Raised("RefreshContended"))
    /\ UNCHANGED <<storeVars, pairing, lockVars, callsLeft, cb, setup, logins, windowReqs, windowFailed>>

\* inside the lock: read the access key again
Recheck(p) ==
    /\ pc[p] = "recheck"
    /\ outcome' = NoOutcome
    /\ IF RecheckHit(accessKey)
       THEN /\ pending' = [pending EXCEPT ![p] =
                             IF IsCipher(accessKey)
                             THEN Returned(Decrypt(accessKey), "recheck")
                             ELSE Raised("InvalidToken")]
            /\ refresh_token' = [refresh_token EXCEPT ![p] = None]
            /\ pc' = [pc EXCEPT ![p] = "release"]
       ELSE /\ pc' = [pc EXCEPT ![p] = "post"]
            /\ UNCHANGED <<pending, refresh_token>>
    /\ UNCHANGED <<storeVars, pairing, lockVars, waited, token_info,
                   issuedAbsent, callsLeft, cb, setup, logins, windowVars>>

\* requests.post(".../api/token", data={grant_type, refresh_token}): no timeout
Post(p) ==
    /\ pc[p] = "post"
    /\ outcome' = NoOutcome
    /\ pc' = [pc EXCEPT ![p] = "upstream"]
    /\ refresh_token' = [refresh_token EXCEPT ![p] = None]
    /\ windowReqs' = IF windowReqs < MaxWindowReqs THEN windowReqs + 1 ELSE windowReqs
    /\ UNCHANGED <<storeVars, pairing, lockVars, waited, token_info, pending,
                   issuedAbsent, callsLeft, cb, setup, logins, windowFailed, windowReturned>>

\* What the provider may answer to a refresh request
Responses ==
    {[status |-> StatusRejected, access_token |-> None,
      refresh_token |-> None, expires_in |-> None]}
    \cup {[status |-> StatusOK, access_token |-> None,
           refresh_token |-> None, expires_in |-> None]}
    \cup [status : {StatusOK}, access_token : {Fresh(UsedAccess)},
          refresh_token : {None, Fresh(UsedRefresh)}, expires_in : ExpiresInChoices]

\* a rejected request sent again instead of raising
RespondRetrying(p, resp) ==
    /\ pc[p] = "upstream"
    /\ outcome' = NoOutcome
    /\ IF resp.status # StatusOK
       THEN /\ pc' = [pc EXCEPT ![p] = "post"]
            /\ UNCHANGED <<token_info, pending>>
       ELSE /\ token_info' = [token_info EXCEPT ![p] = resp]
            /\ pc' = [pc EXCEPT ![p] = "save_access"]
            /\ UNCHANGED pending
    /\ windowFailed' = (windowFailed \/ resp.access_token = None)
    /\ UNCHANGED <<storeVars, pairing, lockVars, waited, refresh_token, issuedAbsent,
                   callsLeft, cb, setup, logins, windowReqs, windowReturned>>

\* the answer arrives; `if response.status_code != 200: raise RuntimeError`
Respond(p, resp) ==
    /\ pc[p] = "upstream"
    /\ outcome' = NoOutcome
    /\ IF resp.status # StatusOK
       THEN /\ pending' = [pending EXCEPT ![p] = Raised("UpstreamRefreshFailed")]
            /\ pc' = [pc EXCEPT ![p] = "release"]
            /\ UNCHANGED token_info
       ELSE /\ token_info' = [token_info EXCEPT ![p] = resp]
            /\ pc' = [pc EXCEPT ![p] = "save_access"]
            /\ UNCHANGED pending
    /\ windowFailed' = (windowFailed \/ resp.access_token = None)
    /\ UNCHANGED <<storeVars, pairing, lockVars, waited, refresh_token, issuedAbsent, callsLeft, cb, setup, logins,
                   windowReqs, windowReturned>>

\* save_token(token_info): r.set("spotify_access_token", ..., ex=expires_in)
SaveAccessStep(p) ==
    /\ pc[p] = "save_access"
    /\ outcome' = NoOutcome
    /\ accessKey' = SaveAccess(token_info[p], accessKey, accessTTL)[1]
    /\ accessTTL' = SaveAccess(token_info[p], accessKey, accessTTL)[2]
    /\ pc' = [pc EXCEPT ![p] = "save_refresh"]
    /\ pairing' = PairAfterAccess(token_info[p], pairing)
    /\ UNCHANGED <<refreshKey, lockVars, waited, refresh_token, token_info, pending,
                   issuedAbsent, callsLeft, cb, setup, logins, windowVars>>

\* save_token(token_info): r.set("spotify_refresh_token", ...);
\* then `return token_info["access_token"]`
SaveRefreshStep(p) ==
    /\ pc[p] = "save_refresh"
    /\ outcome' = NoOutcome
    /\ refreshKey' = SaveRefresh(token_info[p], refreshKey)
    /\ pairing' = PairAfterRefresh(token_info[p], accessKey, pairing)
    /\ pending' = [pending EXCEPT ![p] =
                     IF token_info[p].access_token # None
                     THEN Returned(token_info[p].access_token, "refresh")
                     ELSE Raised("KeyError")]
    /\ pc' = [pc EXCEPT ![p] = "release"]
    /\ UNCHANGED <<accessKey, accessTTL, lockVars, waited, refresh_token, token_info,
                   issuedAbsent, callsLeft, cb, setup, logins, windowVars>>

\* acquire() and release() around the body without try/finally: an exception
\* in the body skips the release
ReleaseUnlessRaised(p) ==
    /\ pc[p] = "release"
    /\ IF pending[p].kind = "ok"
       THEN IF Owns(p)
            THEN /\ lockOwner' = None
                 /\ lockTTL' = 0
                 /\ Finish(p, pending[p])
            ELSE /\ UNCHANGED lockVars
                 /\ Finish(p, Raised("LockNotOwnedError"))
       ELSE /\ UNCHANGED lockVars
            /\ Finish(p, pending[p])
    /\ UNCHANGED <<storeVars, pairing, callsLeft, cb, setup, logins, windowReqs, windowFailed>>

\* Lock.__exit__: release() deletes the key if it is still ours, else raises
Release(p) ==
    /\ pc[p] = "release"
    /\ IF Owns(p)
       THEN /\ lockOwner' = None
            /\ lockTTL' = 0
            /\ Finish(p, pending[p])
       ELSE /\ UNCHANGED lockVars
            /\ Finish(p, Raised("LockNotOwnedError"))
    /\ UNCHANGED <<storeVars, pairing, callsLeft, cb, setup, logins, windowReqs, windowFailed>>

\* ------------------------------------------------------------- /callback
\* token_info = sp_oauth.get_access_token(code, as_dict=True)
CallbackExchange(ex) ==
    /\ cb.pc = "idle"
    /\ logins < MaxLogins
    /\ logins' = logins + 1
    /\ outcome' = NoOutcome
    /\ cb' = [pc |-> "save_access",
              token_info |-> [status |-> StatusOK,
                              access_token |-> Fresh(UsedAccess),
                              refresh_token |-> Fresh(UsedRefresh),
                              expires_in |-> ex]]
    /\ UNCHANGED <<storeVars, pairing, lockVars, pc, waited, refresh_token, token_info,
                   pending, issuedAbsent, callsLeft, setup, windowVars>>

\* save_token(token_info), first write
CallbackSaveAccess ==
    /\ cb.pc = "save_access"
    /\ outcome' = NoOutcome
    /\ accessKey' = SaveAccess(cb.token_info, accessKey, accessTTL)[1]
    /\ accessTTL' = SaveAccess(cb.token_info, accessKey, accessTTL)[2]
    /\ cb' = [cb EXCEPT !.pc = "save_refresh"]
    /\ pairing' = PairAfterAccess(cb.token_info, pairing)
    /\ UNCHANGED <<logins, callsLeft, setup>>
    /\ UNCHANGED <<refreshKey, lockVars, pc, waited, refresh_token, token_info,
                   pending, issuedAbsent, windowVars>>

\* save_token(token_info), second write; then the redirect
CallbackSaveRefresh ==
    /\ cb.pc = "save_refresh"
    /\ outcome' = NoOutcome
    /\ refreshKey' = SaveRefresh(cb.token_info, refreshKey)
    /\ pairing' = PairAfterRefresh(cb.token_info, accessKey, pairing)
    /\ cb' = [pc |-> "idle", token_info |-> NoTokenInfo]
    /\ UNCHANGED <<logins, callsLeft, setup>>
    /\ UNCHANGED <<accessKey, accessTTL, lockVars, pc, waited, refresh_token,
                   token_info, pending, issuedAbsent, windowVars>>

\* ------------------------------------------------------- redis_set_up.py
\* token_info = sp_oauth.get_access_token(code)
SetUpExchange ==
    /\ setup.pc = "idle"
    /\ logins < MaxLogins
    /\ logins' = logins + 1
    /\ outcome' = NoOutcome
    /\ setup' = [pc |-> "write_access",
                 token_info |-> [status |-> StatusOK,
                                 access_token |-> Fresh(UsedAccess),
                                 refresh_token |-> Fresh(UsedRefresh),
                                 expires_in |-> None]]
    /\ UNCHANGED <<storeVars, pairing, lockVars, pc, waited, refresh_token, token_info,
                   pending, issuedAbsent, callsLeft, cb, windowVars>>

\* r.set("spotify_access_token", token_info["access_token"])
SetUpWriteAccess ==
    /\ setup.pc = "write_access"
    /\ outcome' = NoOutcome
    /\ accessKey' = Raw(setup.token_info.access_token)
    /\ accessTTL' = Persist
    /\ pairing' = PairAfterAccess(setup.token_info, pairing)
    /\ setup' = [setup EXCEPT !.pc = "write_refresh"]
    /\ UNCHANGED <<refreshKey, lockVars, pc, waited, refresh_token, token_info,
                   pending, issuedAbsent, callsLeft, cb, logins, windowVars>>

\* r.set("spotify_refresh_token", token_info["refresh_token"])
SetUpWriteRefresh ==
    /\ setup.pc = "write_refresh"
    /\ outcome' = NoOutcome
    /\ refreshKey' = Raw(setup.token_info.refresh_token)
    /\ pairing' = PairAfterRefresh(setup.token_info, accessKey, pairing)
    /\ setup' = [pc |-> "idle", token_info |-> NoTokenInfo]
    /\ UNCHANGED <<accessKey, accessTTL, lockVars, pc, waited, refresh_token,
                   token_info, pending, issuedAbsent, callsLeft, cb, logins,
                   windowVars>>

\* ------------------------------------------------------------------ time
Waiting == {p \in Workers : pc[p] = "acquire"}

\* The running timers: the lock key's PX, the pollers' blocking_timeout,
\* the access key's EX
Timers ==
    (IF lockOwner # None THEN {lockTTL} ELSE {})
    \cup {WaitTimeout - waited[p] : p \in Waiting}
    \cup (IF Present(accessKey) /\ accessTTL # Persist THEN {accessTTL} ELSE {})

\* a lock taken without timeout=
LockGoneNever(d) == FALSE

\* the lock key set with PX = timeout is gone once d more seconds have passed
LockGone(d) == lockOwner # None /\ lockTTL - d <= 0

\* an access key written without ex=
AccessGoneNever(d) == FALSE

\* the access key set with EX = expires_in is gone once d more seconds have passed
AccessGone(d) == Present(accessKey) /\ accessTTL # Persist /\ accessTTL - d <= 0

\* Redis expires keys by itself and the pollers' clocks run: time advances to
\* the next deadline
Tick ==
    /\ cb.pc = "idle"
    /\ setup.pc = "idle"
    /\ outcome' = NoOutcome
    /\ \A p \in Workers : pc[p] \in {"idle", "acquire", "upstream"}
    /\ \A p \in Waiting : lockOwner # None /\ ~WaitExpired(waited[p])
    /\ Timers # {}
    /\ LET d == Min(Timers)
           lockGone == LockGone(d)
           accessGone == AccessGone(d)
       IN  /\ lockOwner' = IF lockGone THEN None ELSE lockOwner
           /\ lockTTL' = IF lockOwner = None \/ lockGone THEN 0 ELSE lockTTL - d
           /\ accessKey' = IF accessGone THEN Absent ELSE accessKey
           /\ accessTTL' = IF ~Present(accessKey) \/ accessGone THEN 0
                           ELSE IF accessTTL = Persist THEN Persist
                           ELSE accessTTL - d
           /\ waited' = [p \in Workers |->
                           IF p \in Waiting THEN waited[p] + d ELSE waited[p]]
           /\ windowReqs' = IF accessGone THEN 0 ELSE windowReqs
           /\ windowFailed' = IF accessGone THEN FALSE ELSE windowFailed
           /\ windowReturned' = IF accessGone THEN {} ELSE windowReturned
           /\ pairing' = IF accessGone THEN "none" ELSE pairing
    /\ UNCHANGED <<refreshKey, pc, refresh_token, token_info, pending,
                   issuedAbsent, callsLeft, cb, setup, logins>>

\* ------------------------------------------------------- specification
WorkerStep(p) ==
    \/ Call(p)
    \/ GvtRead(p)
    \/ RatRead(p)
    \/ Acquire(p)
    \/ AcquireTimeout(p)
    \/ Recheck(p)
    \/ Post(p)
    \/ \E resp \in Responses : Respond(p, resp)
    \/ SaveAccessStep(p)
    \/ SaveRefreshStep(p)
    \/ Release(p)

CallbackStep ==
    \/ \E ex \in ExpiresInChoices : CallbackExchange(ex)
    \/ CallbackSaveAccess
    \/ CallbackSaveRefresh

Next ==
    \/ \E p \in Workers : WorkerStep(p)
    \/ CallbackStep
    \/ Tick

Spec == Init /\ [][Next]_vars

\* Concurrent callers after a login whose access token has expired: the store
\* holds a refresh token and no access token, no further code exchange is
\* made, and every worker makes one call
InitRace ==
    /\ accessKey = Absent
    /\ accessTTL = 0
    /\ refreshKey = Encrypt(1)
    /\ lockOwner = None
    /\ lockTTL = 0
    /\ pc = [p \in Workers |-> "idle"]
    /\ waited = [p \in Workers |-> 0]
    /\ refresh_token = [p \in Workers |-> None]
    /\ token_info = [p \in Workers |-> NoTokenInfo]
    /\ pending = [p \in Workers |-> NoResult]
    /\ outcome = NoOutcome
    /\ issuedAbsent = [p \in Workers |-> FALSE]
    /\ callsLeft = [p \in Workers |-> 1]
    /\ cb = [pc |-> "idle", token_info |-> NoTokenInfo]
    /\ setup = [pc |-> "idle", token_info |-> NoTokenInfo]
    /\ logins = MaxLogins
    /\ windowReqs = 0
    /\ windowFailed = FALSE
    /\ windowReturned = {}
    /\ pairing = "none"

NextRace ==
    \/ \E p \in Workers : WorkerStep(p)
    \/ Tick

SpecRace == InitRace /\ [][NextRace]_vars

\* Running workers making any number of calls, after a login whose access
\* token has expired: requests keep arriving, a worker that can take a step
\* of its call takes it, and time does not stop while workers keep calling.
\* The provider owes no answer.
InitLive ==
    /\ accessKey = Absent
    /\ accessTTL = 0
    /\ refreshKey = Encrypt(1)
    /\ lockOwner = None
    /\ lockTTL = 0
    /\ pc = [p \in Workers |-> "idle"]
    /\ waited = [p \in Workers |-> 0]
    /\ refresh_token = [p \in Workers |-> None]
    /\ token_info = [p \in Workers |-> NoTokenInfo]
    /\ pending = [p \in Workers |-> NoResult]
    /\ outcome = NoOutcome
    /\ issuedAbsent = [p \in Workers |-> FALSE]
    /\ callsLeft = [p \in Workers |-> IF p <= BaseWorkers THEN Unlimited ELSE 0]
    /\ cb = [pc |-> "idle", token_info |-> NoTokenInfo]
    /\ setup = [pc |-> "idle", token_info |-> NoTokenInfo]
    /\ logins = MaxLogins
    /\ windowReqs = 0
    /\ windowFailed = FALSE
    /\ windowReturned = {}
    /\ pairing = "none"

\* the steps a running worker takes by itself
OwnStep(p) ==
    \/ Call(p)
    \/ GvtRead(p)
    \/ RatRead(p)
    \/ Acquire(p)
    \/ AcquireTimeout(p)
    \/ Recheck(p)
    \/ Post(p)
    \/ SaveAccessStep(p)
    \/ SaveRefreshStep(p)
    \/ Release(p)

SpecLive ==
    /\ InitLive
    /\ [][NextRace]_vars
    /\ SF_vars(Tick)
    /\ \A p \in Workers : WF_vars(OwnStep(p))

\* The service next to the redis_set_up.py script: after a login whose access
\* token has expired, the workers serve requests while the script is run once
SetUpStep ==
    \/ SetUpExchange
    \/ SetUpWriteAccess
    \/ SetUpWriteRefresh

InitSetUp ==
    /\ accessKey = Absent
    /\ accessTTL = 0
    /\ refreshKey = Encrypt(1)
    /\ lockOwner = None
    /\ lockTTL = 0
    /\ pc = [p \in Workers |-> "idle"]
    /\ waited = [p \in Workers |-> 0]
    /\ refresh_token = [p \in Workers |-> None]
    /\ token_info = [p \in Workers |-> NoTokenInfo]
    /\ pending = [p \in Workers |-> NoResult]
    /\ outcome = NoOutcome
    /\ issuedAbsent = [p \in Workers |-> FALSE]
    /\ callsLeft = [p \in Workers |-> IF p <= BaseWorkers THEN Unlimited ELSE 0]
    /\ cb = [pc |-> "idle", token_info |-> NoTokenInfo]
    /\ setup = [pc |-> "idle", token_info |-> NoTokenInfo]
    /\ logins = MaxLogins - 1
    /\ windowReqs = 0
    /\ windowFailed = FALSE
    /\ windowReturned = {}
    /\ pairing = "none"

NextSetUp ==
    \/ \E p \in Workers : WorkerStep(p)
    \/ SetUpStep
    \/ Tick

SpecSetUp == InitSetUp /\ [][NextSetUp]_vars

\* Sequential calls: a handler calls get_valid_token() only when no other call
\* is under way, so nobody ever polls for the lock
CallSeq(p) ==
    /\ \A q \in Workers : pc[q] = "idle"
    /\ Call(p)

SeqStep(p) ==
    \/ CallSeq(p)
    \/ GvtRead(p)
    \/ RatRead(p)
    \/ Acquire(p)
    \/ Recheck(p)
    \/ Post(p)
    \/ \E resp \in Responses : Respond(p, resp)
    \/ SaveAccessStep(p)
    \/ SaveRefreshStep(p)
    \/ Release(p)

NextSeq ==
    \/ \E p \in Workers : SeqStep(p)
    \/ Tick

SpecSeq == InitLive /\ [][NextSeq]_vars

\* A refresh token the provider has revoked: one refresh of this window has
\* been rejected already, and the provider rejects every further one
Rejected == [status |-> StatusRejected, access_token |-> None,
             refresh_token |-> None, expires_in |-> None]

RespondRevoked(p) == Respond(p, Rejected)

InitRevoked ==
    /\ accessKey = Absent
    /\ accessTTL = 0
    /\ refreshKey = Encrypt(1)
    /\ lockOwner = None
    /\ lockTTL = 0
    /\ pc = [p \in Workers |-> "idle"]
    /\ waited = [p \in Workers |-> 0]
    /\ refresh_token = [p \in Workers |-> None]
    /\ token_info = [p \in Workers |-> NoTokenInfo]
    /\ pending = [p \in Workers |-> NoResult]
    /\ outcome = NoOutcome
    /\ issuedAbsent = [p \in Workers |-> FALSE]
    /\ callsLeft = [p \in Workers |-> IF p <= BaseWorkers THEN Unlimited ELSE 0]
    /\ cb = [pc |-> "idle", token_info |-> NoTokenInfo]
    /\ setup = [pc |-> "idle", token_info |-> NoTokenInfo]
    /\ logins = MaxLogins
    /\ windowReqs = 1
    /\ windowFailed = TRUE
    /\ windowReturned = {}
    /\ pairing = "none"

RevokedStep(p) ==
    \/ Call(p)
    \/ GvtRead(p)
    \/ RatRead(p)
    \/ Acquire(p)
    \/ AcquireTimeout(p)
    \/ Recheck(p)
    \/ Post(p)
    \/ RespondRevoked(p)
    \/ Release(p)

NextRevoked ==
    \/ \E p \in Workers : RevokedStep(p)
    \/ Tick

SpecRevoked == InitRevoked /\ [][NextRevoked]_vars

\* ================================================================ claims

\* C1: while no refresh of the window was answered without a token, at most
\* one upstream refresh request is issued per expiry window, whatever the
\* interleaving of the callers.
C1_OneRefreshPerWindow == ~windowFailed => windowReqs <= 1

\* C2: all calls issued while the access token was absent that return a token
\* within one expiry window return the same token.
C2_SameTokenReturned == Cardinality(windowReturned) <= 1

\* C3: a get_valid_token() that reads a present access token returns exactly
\* that token, in that step, and leaves the lock, the upstream request count
\* and both token keys as they were.
C3_FastPath ==
    [][\A p \in Workers :
         (pc[p] = "gvt" /\ pc'[p] # "gvt" /\ accessKey # Absent)
         => /\ outcome' = Ended(p, Returned(Decrypt(accessKey), "fast"), NoResult)
            /\ pc'[p] = "idle"
            /\ UNCHANGED <<storeVars, lockVars, windowReqs>>]_vars

C3_Witness == outcome.kind = "ok" /\ outcome.via = "fast"

\* C4 as stated: while no refresh token was ever stored, every call that ends
\* ends with NoCredentials, whatever the access-token slot holds.
C4_AlwaysNoCredentials ==
    (refreshKey = Absent /\ outcome.kind # "none") => outcome.kind = "NoCredentials"

\* C4 amended: a call that finds the refresh token absent when
\* refresh_access_token reads it fails with NoCredentials in that step, taking
\* no lock, sending no request and writing no key; while no refresh token is
\* stored a call ends either so or by returning the access token it found.
C4_NoCredentials ==
    /\ [](refreshKey = Absent /\ outcome.kind # "none"
           => \/ outcome.kind = "NoCredentials"
              \/ outcome.kind = "ok" /\ outcome.via = "fast")
    /\ [][\A p \in Workers :
            (pc[p] = "rat" /\ pc'[p] # "rat" /\ refreshKey = Absent)
            => /\ outcome' = Ended(p, Raised("NoCredentials"), NoResult)
               /\ pc'[p] = "idle"
               /\ UNCHANGED <<storeVars, lockVars, windowReqs>>]_vars

C4_Witness == outcome.kind = "NoCredentials" /\ refreshKey = Absent

\* C5: the refresh key after a worker's save_token is the encrypted
\* refresh_token of the answer if the answer has one and is the key as it was
\* if not; the write of the access token never touches it.
C5_RefreshKeptOrReplaced ==
    [][\A p \in Workers :
         /\ (pc[p] = "save_refresh" /\ pc'[p] # "save_refresh")
            => refreshKey' = IF token_info[p].refresh_token # None
                             THEN Encrypt(token_info[p].refresh_token)
                             ELSE refreshKey
         /\ (pc[p] = "save_access" /\ pc'[p] # "save_access")
            => refreshKey' = refreshKey]_vars

C5_Witness ==
    \E p \in Workers :
        /\ pc[p] = "release"
        /\ token_info[p].status = StatusOK
        /\ token_info[p].access_token # None
        /\ token_info[p].refresh_token = None
        /\ refreshKey # Absent

\* C6: a call whose refresh request was answered with a non-200 status fails
\* with UpstreamRefreshFailed, and neither the step that takes the answer nor
\* the step that ends the call changes the access key or the refresh key.
C6_FailsWithUpstreamRefreshFailed ==
    [][\A p \in Workers :
         /\ (pc[p] = "upstream" /\ pc'[p] = "release") => UNCHANGED storeVars
         /\ (pc[p] = "release" /\ pending[p].kind = "UpstreamRefreshFailed"
               /\ pc'[p] = "idle")
            => /\ outcome'.kind = "UpstreamRefreshFailed"
               /\ UNCHANGED storeVars]_vars

\* C7: a worker polling for the lock never polls for more than 5 seconds, and
\* when it stops polling without the lock it fails with RefreshContended after
\* exactly the wait timeout, having sent no request and written no key.
C7_ContentionBounded ==
    /\ [](\A p \in Workers : waited[p] <= 5)
    /\ [][\A p \in Workers :
            (pc[p] = "acquire" /\ pc'[p] # "acquire" /\ lockOwner' # p)
            => /\ outcome' = Ended(p, Raised("RefreshContended"), NoResult)
               /\ waited[p] = 5
               /\ lockOwner # None
               /\ UNCHANGED <<storeVars, lockVars, windowReqs>>]_vars

C7_Witness == outcome.kind = "RefreshContended"

\* C8: a worker that is outside the with-block (its call returned or raised,
\* or it has not entered the block) is not the owner of the lock.
C8_LockReleased ==
    \A p \in Workers :
        pc[p] \in {"idle", "gvt", "rat", "acquire"} => lockOwner # p

C8_Witness ==
    /\ outcome.kind = "UpstreamRefreshFailed"
    /\ lockOwner = None
    /\ \E p \in Workers : pc[p] = "acquire"

\* C9: a lock held by a worker whose upstream request hangs does not stay
\* with it, and unless the request is answered after all, every other worker
\* that keeps calling and is not hung itself acquires the lock later.
C9_LockNotWedged ==
    \A p \in Workers :
        /\ (lockOwner = p /\ pc[p] = "upstream") ~> (lockOwner # p)
        /\ \A q \in Workers \ {p} :
              (lockOwner = p /\ pc[p] = "upstream"
                 /\ pc[q] # "upstream" /\ callsLeft[q] = Unlimited)
              ~> (pc[p] # "upstream" \/ lockOwner = q)

C9_Witness ==
    \E p, q \in Workers : p # q /\ pc[p] = "upstream" /\ lockOwner = q

\* C10: a worker waiting for the answer to its refresh request still owns the
\* lock (the request never outlasts the lock's hold timeout).
C10_RequestWithinHold ==
    \A p \in Workers : pc[p] = "upstream" => lockOwner = p

\* C11: one get_valid_token() call never goes back to a statement it has
\* passed, so it sends at most one refresh request and enters the lock's
\* acquisition at most once; a call whose request was rejected, or that gave
\* up polling, ends in its next step with an error and without a new request.
C11_NoRetry ==
    [][\A p \in Workers :
         /\ (pc[p] # "idle" /\ pc'[p] # pc[p]) => Rank(pc'[p]) > Rank(pc[p])
         /\ (windowReqs' # windowReqs /\ pc'[p] # pc[p])
            => (pc[p] = "post" /\ pc'[p] = "upstream")
         /\ (pc[p] = "release" /\ pending[p].kind = "UpstreamRefreshFailed"
               /\ pc'[p] # "release")
            => (pc'[p] = "idle" /\ outcome'.worker = p /\ outcome'.kind # "ok")
         /\ (pc[p] = "acquire" /\ pc'[p] \notin {"acquire", "recheck"})
            => (pc'[p] = "idle" /\ outcome'.kind = "RefreshContended")]_vars

C11_Witness ==
    /\ outcome.kind \in {"UpstreamRefreshFailed", "RefreshContended"}
    /\ pc[outcome.worker] = "idle"
    /\ windowReqs = 1

\* C12: with calls made one after the other, a call whose refresh request was
\* answered with an access token returns that token; an answer without a
\* refresh token leaves the stored refresh token as it was; and every call
\* that finds the access token stored returns it in that step without a
\* further request.
C12_SequentialScenario ==
    [][\A p \in Workers :
         /\ (pc[p] = "release" /\ pending[p].via = "refresh" /\ pc'[p] = "idle")
            => /\ outcome'.kind = "ok"
               /\ outcome'.value = token_info[p].access_token
         /\ (pc[p] = "save_refresh" /\ pc'[p] = "release"
               /\ token_info[p].refresh_token = None)
            => UNCHANGED refreshKey
         /\ (pc[p] = "gvt" /\ pc'[p] # "gvt" /\ Present(accessKey))
            => /\ pc'[p] = "idle"
               /\ outcome'.kind = "ok"
               /\ outcome'.value = Decrypt(accessKey)
               /\ UNCHANGED windowReqs]_vars

\* C13: a handler whose get_valid_token() call failed with NoCredentials
\* answers with status 401.
C13_NoCredentialsIs401 ==
    outcome.kind = "NoCredentials" => HandlerStatus(outcome) = StatusUnauthorized

\* C14: once a refresh with the stored refresh token has been rejected, no call
\* sends a further refresh request, and every call that ends with the access
\* token absent ends with NoCredentials.
C14_RevokedIsNoCredentials ==
    /\ \A p \in Workers : pc[p] \notin {"post", "upstream"}
    /\ outcome.kind \in {"none", "NoCredentials"}

\* C15: a stored access token always has a time to live, between one second
\* and the expires_in it was written with (3600 when the answer had none).
C15_AccessAlwaysExpires ==
    Present(accessKey) => (accessTTL # Persist /\ accessTTL \in 1..DefaultExpiresIn)

\* C16: save_token stores the encrypted form of the token it was given, a
\* reader that decrypts what is stored gets that token back, and neither key
\* ever holds a value that is not the encrypted form.
C16_RoundTrip ==
    [][/\ \A p \in Workers :
            /\ (pc[p] = "save_access" /\ pc'[p] = "save_refresh"
                  /\ token_info[p].access_token # None)
               => (IsCipher(accessKey')
                   /\ Decrypt(accessKey') = token_info[p].access_token)
            /\ (pc[p] = "save_refresh" /\ pc'[p] = "release"
                  /\ token_info[p].refresh_token # None)
               => (IsCipher(refreshKey')
                   /\ Decrypt(refreshKey') = token_info[p].refresh_token)
            /\ (pc[p] = "gvt" /\ pc'[p] = "idle")
               => (outcome'.kind = "ok" /\ outcome'.value = Payload(accessKey))
            /\ (pc[p] = "rat" /\ pc'[p] = "acquire")
               => refresh_token'[p] = Payload(refreshKey)
       /\ Present(accessKey') => IsCipher(accessKey')
       /\ Present(refreshKey') => IsCipher(refreshKey')]_vars

\* C17: a worker that finds the access token stored when it reads it again
\* inside the lock returns that very value, sends no request and changes
\* neither key; a worker moves on to the request only if the second read
\* found the access token absent.
C17_DoubleCheck ==
    [][\A p \in Workers :
         /\ (pc[p] = "recheck" /\ pc'[p] # "recheck" /\ Present(accessKey))
            => /\ pc'[p] = "release"
               /\ pending'[p] = Returned(Decrypt(accessKey), "recheck")
               /\ UNCHANGED <<storeVars, lockVars, windowReqs>>
         /\ (pc[p] = "release" /\ pending[p].via = "recheck" /\ pc'[p] # "release")
            => /\ outcome' = Ended(p, pending[p], pending[p])
               /\ pc'[p] = "idle"
               /\ UNCHANGED <<storeVars, windowReqs>>
         /\ (pc[p] = "recheck" /\ pc'[p] = "post") => ~Present(accessKey)
         /\ (pc[p] # "post" /\ pc'[p] = "upstream") => pc[p] = "upstream"]_vars

C17_Witness == outcome.kind = "ok" /\ outcome.via = "recheck"

\* C18: a refresh request carries the refresh token the store holds at the
\* moment the request is sent.
C18_RequestCarriesStoredToken ==
    [][\A p \in Workers :
         (pc[p] = "post" /\ pc'[p] = "upstream")
         => (Present(refreshKey) /\ refresh_token[p] = Payload(refreshKey))]_vars

\* C19: the access key comes into being only in a save_token write of a token
\* received from a code exchange or from a refresh answered with 200; it
\* ceases to be only in a step in which nothing but time passes and its time
\* to live runs out; a stored access token has time left to live; and a token
\* returned from the store is the stored one, with time left to live.
C19_SlotLifecycle ==
    /\ [](/\ Present(accessKey) => accessTTL > 0
          /\ ~Present(accessKey) => accessTTL = 0)
    /\ [][/\ (~Present(accessKey) /\ Present(accessKey'))
             => \/ /\ cb.pc = "save_access" /\ cb'.pc = "save_refresh"
                   /\ accessKey' = Encrypt(cb.token_info.access_token)
                \/ \E p \in Workers :
                     /\ pc[p] = "save_access" /\ pc'[p] = "save_refresh"
                     /\ token_info[p].status = StatusOK
                     /\ accessKey' = Encrypt(token_info[p].access_token)
          /\ (Present(accessKey) /\ ~Present(accessKey'))
             => /\ UNCHANGED <<pc, cb, refreshKey>>
                /\ Timers # {}
                /\ accessTTL <= Min(Timers)
          /\ \A p \in Workers :
               (pc[p] = "gvt" /\ pc'[p] = "idle" /\ outcome'.kind = "ok")
               => /\ Present(accessKey) /\ accessTTL > 0
                  /\ outcome'.value = Decrypt(accessKey)]_vars

C19_Witness ==
    /\ logins > 0
    /\ Present(refreshKey)
    /\ ~Present(accessKey)
    /\ outcome.kind = "none"
    /\ \A p \in Workers : pc[p] = "idle"

\* C20: at most one worker is inside the with-block of refresh_access_token.
C20_MutualExclusion ==
    Cardinality({p \in Workers :
                   pc[p] \in {"recheck", "post", "upstream", "save_access",
                              "save_refresh", "release"}}) <= 1

\* C21: whenever no save_token is in progress, the stored access token and
\* the stored refresh token do not come from two different answers that each
\* carried both tokens.
C21_PairConsistent ==
    (/\ cb.pc = "idle"
     /\ setup.pc = "idle"
     /\ \A p \in Workers : pc[p] \notin {"save_access", "save_refresh"})
    => pairing # "mixed"

\* C21 amended: the two writes of save_token are separate and each is the
\* last write that wins: the first sets the access key to the writer's access
\* token and leaves the refresh key alone, the second sets the refresh key to
\* the writer's refresh token and leaves the access key alone, whatever other
\* writer is in progress; and no key takes a new value in any other way.
C21_LastWriteWins ==
    [][/\ \A p \in Workers :
            /\ (pc[p] = "save_access" /\ pc'[p] = "save_refresh"
                  /\ token_info[p].access_token # None)
               => /\ accessKey' = Encrypt(token_info[p].access_token)
                  /\ accessTTL' = ExpiresIn(token_info[p])
                  /\ UNCHANGED refreshKey
            /\ (pc[p] = "save_refresh" /\ pc'[p] = "release"
                  /\ token_info[p].refresh_token # None)
               => /\ refreshKey' = Encrypt(token_info[p].refresh_token)
                  /\ UNCHANGED <<accessKey, accessTTL>>
       /\ (cb.pc = "save_access" /\ cb'.pc = "save_refresh")
          => /\ accessKey' = Encrypt(cb.token_info.access_token)
             /\ accessTTL' = ExpiresIn(cb.token_info)
             /\ UNCHANGED refreshKey
       /\ (cb.pc = "save_refresh" /\ cb'.pc = "idle")
          => /\ refreshKey' = Encrypt(cb.token_info.refresh_token)
             /\ UNCHANGED <<accessKey, accessTTL>>
       /\ (accessKey' # accessKey /\ Present(accessKey'))
          => \/ cb.pc = "save_access" /\ cb'.pc = "save_refresh"
             \/ \E p \in Workers : pc[p] = "save_access" /\ pc'[p] = "save_refresh"
       /\ (refreshKey' # refreshKey)
          => \/ cb.pc = "save_refresh" /\ cb'.pc = "idle"
             \/ \E p \in Workers : pc[p] = "save_refresh" /\ pc'[p] = "release"]_vars

C21_Witness ==
    /\ pairing = "mixed"
    /\ cb.pc = "idle"
    /\ \A p \in Workers : pc[p] \in {"idle", "release"}

\* C22: a refresh_access_token call whose with-block returned a token (its
\* upstream request succeeded and save_token wrote the new tokens, or the
\* re-check found one) returns that token to its caller, also when its lock
\* expired during the upstream request.
C22_ReturnsSavedToken ==
    (outcome.kind # "none" /\ outcome.body = "ok") => outcome.kind = "ok"

====
